---------------------------- MODULE Spec2Model ----------------------------
(* A model of the garbage-collector simulator: the memory space manager   *)
(* (memory_simulator.py) and the collector (garbage_collector.py).        *)
(*                                                                        *)
(* A MemoryBlock is a record; MemorySimulator.memory_blocks is a sequence *)
(* of such records in list order.  The display-only fields of a block     *)
(* (color, selected) take no part in placement or reclamation and are     *)
(* left out.  Wall-clock time (time.time()) is the integer variable now.  *)
EXTENDS Integers, Sequences, FiniteSets

VARIABLES
    total_memory_size, \* MemorySimulator.total_memory_size
    memory_blocks,   \* MemorySimulator.memory_blocks
    next_block_id,   \* MemorySimulator.next_block_id
    root_blocks,     \* GarbageCollector.root_blocks
    algorithm,       \* GarbageCollector.algorithm
    threshold,       \* GarbageCollector.threshold
    auto_gc,         \* GarbageCollector.auto_gc
    now,             \* the wall clock read by time.time()
    last             \* the last top-level call: its name, arguments, result

vars == <<total_memory_size, memory_blocks, next_block_id, root_blocks, algorithm,
          threshold, auto_gc, now, last>>

-----------------------------------------------------------------------------
(* Bounds of the model.                                                   *)

\* MemorySimulator(total_size): the capacity of the address range.
TotalSize == 5
\* Ids handed out in one session: allocation stops at this id.
MaxBlockId == 4
\* Ids handed out in the runs that collect with each algorithm.
ExtentsMaxBlockId == 3
\* Ids handed out in the runs that build reference graphs.
GraphMaxBlockId == 2
\* The largest number of outgoing references all blocks hold together.
MaxRefs == 1
\* The longest root list.
MaxRoots == 1

\* The largest number of references in the runs that count references.
CycleMaxRefs == 2
\* The last reading of the clock.
MaxTime == 6
\* The ids named in the runs that build root lists, and the longest of
\* these lists.
RootsMaxId == 3
RootsMaxLen == 3
\* MemorySimulator(100): the capacity the application runs with.
AppTotalSize == 100

\* GarbageCollector.young_gen_max_age
young_gen_max_age == 5

\* Sizes a caller asks for: non-positive, fitting, and above the capacity.
Sizes == 0..(total_memory_size + 1)

-----------------------------------------------------------------------------
(* Sequence helpers.                                                      *)

RECURSIVE SumSizes(_)
SumSizes(s) == IF s = <<>> THEN 0 ELSE Head(s).size + SumSizes(Tail(s))

RemoveAt(s, i) == SubSeq(s, 1, i - 1) \o SubSeq(s, i + 1, Len(s))

InsertAt(s, i, e) == SubSeq(s, 1, i - 1) \o <<e>> \o SubSeq(s, i, Len(s))

Contains(s, e) == \E i \in 1..Len(s) : s[i] = e

\* list.remove(e): drops the first occurrence.
RemoveFirst(s, e) ==
    IF Contains(s, e)
    THEN RemoveAt(s, CHOOSE i \in 1..Len(s) :
                        s[i] = e /\ \A j \in 1..(i - 1) : s[j] # e)
    ELSE s

\* The place of b in a list sorted by start_index, after every element whose
\* start_index is not greater (the sort is stable).
InsertByStart(s, b) ==
    LET after == {i \in 1..Len(s) : s[i].start_index > b.start_index}
        pos == IF after = {} THEN Len(s) + 1
               ELSE CHOOSE i \in after : \A j \in after : i <= j
    IN  InsertAt(s, pos, b)

\* sorted(blocks, key=lambda block: block.start_index)
RECURSIVE SortByStart(_)
SortByStart(s) ==
    IF s = <<>> THEN <<>>
    ELSE InsertByStart(SortByStart(SubSeq(s, 1, Len(s) - 1)), s[Len(s)])

-----------------------------------------------------------------------------
(* MemoryBlock and MemorySimulator.                                       *)

\* MemoryBlock.__init__
MemoryBlock(block_id, size, start_index, time) ==
    [id |-> block_id, size |-> size, status |-> "allocated",
     start_index |-> start_index, end_index |-> start_index + size - 1,
     generation |-> "young", allocation_time |-> time, references |-> <<>>]

\* MemoryBlock.add_reference without the membership test.
block_add_reference_Duplicates(refs, block_id) == Append(refs, block_id)

\* MemoryBlock.add_reference
block_add_reference(refs, block_id) ==
    IF Contains(refs, block_id) THEN refs ELSE Append(refs, block_id)

\* MemoryBlock.remove_reference
block_remove_reference(refs, block_id) == RemoveFirst(refs, block_id)

\* get_block_by_id: the index of the first block with the id, 0 for None.
get_block_by_id(blocks, block_id) ==
    LET hits == {i \in 1..Len(blocks) : blocks[i].id = block_id}
    IN  IF hits = {} THEN 0 ELSE CHOOSE i \in hits : \A j \in hits : i <= j

get_used_memory(blocks) == SumSizes(blocks)

get_free_memory(blocks) == total_memory_size - get_used_memory(blocks)

\* The scan of the gaps between consecutive blocks of sorted_blocks, from
\* index i on: the start of the first gap that holds size, or -1.
\* ScanGaps with the gap measured from end_index instead of end_index + 1.
RECURSIVE ScanGaps_GapOffByOne(_, _, _)
ScanGaps_GapOffByOne(sorted_blocks, i, size) ==
    IF i > Len(sorted_blocks) - 1 THEN -1
    ELSE LET current_block == sorted_blocks[i]
             next_block == sorted_blocks[i + 1]
             gap_size == next_block.start_index - current_block.end_index
         IN  IF gap_size >= size THEN current_block.end_index + 1
             ELSE ScanGaps_GapOffByOne(sorted_blocks, i + 1, size)

RECURSIVE ScanGaps(_, _, _)
ScanGaps(sorted_blocks, i, size) ==
    IF i > Len(sorted_blocks) - 1 THEN -1
    ELSE LET current_block == sorted_blocks[i]
             next_block == sorted_blocks[i + 1]
             gap_size == next_block.start_index - (current_block.end_index + 1)
         IN  IF gap_size >= size THEN current_block.end_index + 1
             ELSE ScanGaps(sorted_blocks, i + 1, size)

\* find_free_space_index that wants the space after the last block to be
\* larger than size.
find_free_space_index_StrictTrailing(blocks, size) ==
    IF blocks = <<>> THEN 0
    ELSE LET sorted_blocks == SortByStart(blocks)
             between == ScanGaps(sorted_blocks, 1, size)
             last_block == sorted_blocks[Len(sorted_blocks)]
             remaining_space == total_memory_size - (last_block.end_index + 1)
         IN  IF sorted_blocks[1].start_index >= size THEN 0
             ELSE IF between # -1 THEN between
             ELSE IF remaining_space > size THEN last_block.end_index + 1
             ELSE -1

\* find_free_space_index with the space after the last block tried first.
find_free_space_index_AppendFirst(blocks, size) ==
    IF blocks = <<>> THEN 0
    ELSE LET sorted_blocks == SortByStart(blocks)
             between == ScanGaps(sorted_blocks, 1, size)
             last_block == sorted_blocks[Len(sorted_blocks)]
             remaining_space == total_memory_size - (last_block.end_index + 1)
         IN  IF remaining_space >= size THEN last_block.end_index + 1
             ELSE IF sorted_blocks[1].start_index >= size THEN 0
             ELSE IF between # -1 THEN between
             ELSE -1

\* find_free_space_index without the check for space at the beginning.
find_free_space_index_NoLeading(blocks, size) ==
    IF blocks = <<>> THEN 0
    ELSE LET sorted_blocks == SortByStart(blocks)
             between == ScanGaps(sorted_blocks, 1, size)
             last_block == sorted_blocks[Len(sorted_blocks)]
             remaining_space == total_memory_size - (last_block.end_index + 1)
         IN  IF between # -1 THEN between
             ELSE IF remaining_space >= size THEN last_block.end_index + 1
             ELSE -1

find_free_space_index(blocks, size) ==
    IF blocks = <<>> THEN 0
    ELSE LET sorted_blocks == SortByStart(blocks)
             between == ScanGaps(sorted_blocks, 1, size)
             last_block == sorted_blocks[Len(sorted_blocks)]
             remaining_space == total_memory_size - (last_block.end_index + 1)
         IN  IF sorted_blocks[1].start_index >= size THEN 0
             ELSE IF between # -1 THEN between
             ELSE IF remaining_space >= size THEN last_block.end_index + 1
             ELSE -1

find_insert_index(blocks, start_index) ==
    LET after == {i \in 1..Len(blocks) : blocks[i].start_index > start_index}
    IN  IF after = {} THEN Len(blocks) + 1
        ELSE CHOOSE i \in after : \A j \in after : i <= j

\* allocate_error without the check against the free memory.
allocate_error_NoFreeCheck(blocks, size) ==
    IF size <= 0 THEN "InvalidSize"
    ELSE IF size > total_memory_size THEN "InsufficientCapacity"
    ELSE IF find_free_space_index(blocks, size) = -1 THEN "FragmentedSpace"
    ELSE ""

\* The error of allocate_memory(size), "" when it succeeds.  The four
\* messages of the code are named as the error kinds they report.
allocate_error(blocks, size) ==
    IF size <= 0 THEN "InvalidSize"
    ELSE IF size > total_memory_size THEN "InsufficientCapacity"
    ELSE IF size > get_free_memory(blocks) THEN "InsufficientFreeMemory"
    ELSE IF find_free_space_index(blocks, size) = -1 THEN "FragmentedSpace"
    ELSE ""

\* allocate_blocks that numbers the new block by the length of the list.
allocate_blocks_IdFromLength(blocks, block_id, size, time) ==
    LET start_index == find_free_space_index(blocks, size)
        new_block == MemoryBlock(Len(blocks) + 1, size, start_index, time)
    IN  InsertAt(blocks, find_insert_index(blocks, start_index), new_block)

\* The block list after a successful allocate_memory(size).
allocate_blocks(blocks, block_id, size, time) ==
    LET start_index == find_free_space_index(blocks, size)
        new_block == MemoryBlock(block_id, size, start_index, time)
    IN  InsertAt(blocks, find_insert_index(blocks, start_index), new_block)

\* Relocate with end_index left as it was.
RECURSIVE Relocate_StaleEnd(_, _, _)
Relocate_StaleEnd(blocks, i, current_index) ==
    IF i > Len(blocks) THEN blocks
    ELSE Relocate_StaleEnd([blocks EXCEPT ![i].start_index = current_index],
                           i + 1, current_index + blocks[i].size)

\* Relocation of the blocks from index i on, the first of them to
\* current_index.
RECURSIVE Relocate(_, _, _)
Relocate(blocks, i, current_index) ==
    IF i > Len(blocks) THEN blocks
    ELSE Relocate([blocks EXCEPT ![i].start_index = current_index,
                                 ![i].end_index = current_index + blocks[i].size - 1],
                  i + 1, current_index + blocks[i].size)

compact_blocks(blocks) == Relocate(SortByStart(blocks), 1, 0)

\* round(x) of Python 3 for x = num / den, den > 0: to the nearest integer,
\* a tie to the even one.
Round(num, den) ==
    LET q == num \div den
        r == num % den
    IN  IF 2 * r < den THEN q
        ELSE IF 2 * r > den THEN q + 1
        ELSE IF q % 2 = 0 THEN q ELSE q + 1

Max(a, b) == IF a >= b THEN a ELSE b

Min(a, b) == IF a <= b THEN a ELSE b

RECURSIVE SumGaps(_, _)
SumGaps(sorted_blocks, i) ==
    IF i > Len(sorted_blocks) - 1 THEN 0
    ELSE Max(0, sorted_blocks[i + 1].start_index - (sorted_blocks[i].end_index + 1))
         + SumGaps(sorted_blocks, i + 1)

\* calculate_fragmentation that leaves the space after the last block out
\* of the gaps.
calculate_fragmentation_NoTrailing(blocks) ==
    IF Len(blocks) <= 1 THEN 0
    ELSE LET sorted_blocks == SortByStart(blocks)
             total_gap_size == sorted_blocks[1].start_index
                               + SumGaps(sorted_blocks, 1)
             free_memory == get_free_memory(blocks)
         IN  IF free_memory # 0 THEN Round(total_gap_size * 100, free_memory) ELSE 0

calculate_fragmentation(blocks) ==
    IF Len(blocks) <= 1 THEN 0
    ELSE LET sorted_blocks == SortByStart(blocks)
             last_block == sorted_blocks[Len(sorted_blocks)]
             total_gap_size == sorted_blocks[1].start_index
                               + SumGaps(sorted_blocks, 1)
                               + (total_memory_size - (last_block.end_index + 1))
             free_memory == get_free_memory(blocks)
         IN  IF free_memory # 0 THEN Round(total_gap_size * 100, free_memory) ELSE 0

get_stats(blocks) ==
    [total_memory |-> total_memory_size,
     used_memory |-> get_used_memory(blocks),
     free_memory |-> get_free_memory(blocks),
     fragmentation |-> calculate_fragmentation(blocks)]

\* mark_block that marks Allocated blocks only.
mark_block_in_AllocatedOnly(blocks, block_id) ==
    LET i == get_block_by_id(blocks, block_id)
    IN  IF i # 0 /\ blocks[i].status = "allocated"
        THEN [blocks EXCEPT ![i].status = "marked"]
        ELSE blocks

\* mark_block on a block list: the list after the call.
mark_block_in(blocks, block_id) ==
    LET i == get_block_by_id(blocks, block_id)
    IN  IF i # 0 /\ blocks[i].status \in {"allocated", "garbage"}
        THEN [blocks EXCEPT ![i].status = "marked"]
        ELSE blocks

\* free_block that also takes the references to the block out of the others.
free_block_in_ClearsReferences(blocks, block_id) ==
    LET i == get_block_by_id(blocks, block_id)
        rest == RemoveAt(blocks, i)
    IN  IF i # 0
        THEN [k \in 1..Len(rest) |->
                [rest[k] EXCEPT !.references =
                    SelectSeq(rest[k].references, LAMBDA r : r # block_id)]]
        ELSE blocks

\* free_block on a block list: the list after the call.
free_block_in(blocks, block_id) ==
    LET i == get_block_by_id(blocks, block_id)
    IN  IF i # 0 THEN RemoveAt(blocks, i) ELSE blocks

\* promote_to_old_generation that makes an Old block Young.
promote_in_Toggle(blocks, block_id) ==
    LET i == get_block_by_id(blocks, block_id)
    IN  IF i = 0 THEN blocks
        ELSE [blocks EXCEPT ![i].generation =
                 IF blocks[i].generation = "young" THEN "old" ELSE "young"]

\* promote_to_old_generation on a block list: the list after the call.
promote_in(blocks, block_id) ==
    LET i == get_block_by_id(blocks, block_id)
    IN  IF i # 0 /\ blocks[i].generation = "young"
        THEN [blocks EXCEPT ![i].generation = "old"]
        ELSE blocks

-----------------------------------------------------------------------------
(* GarbageCollector.                                                      *)

Range(s) == {s[i] : i \in 1..Len(s)}

\* for ref_id in block.references: the pair <<reachable, queue>> after the
\* references from index i on have been visited.
RECURSIVE VisitReferences(_, _, _, _)
VisitReferences(refs, i, reachable, queue) ==
    IF i > Len(refs) THEN <<reachable, queue>>
    ELSE IF refs[i] \notin reachable
         THEN VisitReferences(refs, i + 1, reachable \cup {refs[i]},
                              Append(queue, refs[i]))
         ELSE VisitReferences(refs, i + 1, reachable, queue)

\* while queue: the reachable set once the queue has drained.
RECURSIVE ReachLoop(_, _, _)
ReachLoop(blocks, reachable, queue) ==
    IF queue = <<>> THEN reachable
    ELSE LET block_id == Head(queue)
             i == get_block_by_id(blocks, block_id)
         IN  IF i # 0
             THEN LET r == VisitReferences(blocks[i].references, 1,
                                           reachable, Tail(queue))
                  IN  ReachLoop(blocks, r[1], r[2])
             ELSE ReachLoop(blocks, reachable, Tail(queue))

\* find_reachable_blocks that stops at the roots.
find_reachable_blocks_RootsOnly(blocks, root_ids) == Range(root_ids)

find_reachable_blocks(blocks, root_ids) ==
    ReachLoop(blocks, Range(root_ids), root_ids)

\* MarkReachable that leaves an unreachable allocated block as it is.
RECURSIVE MarkReachable_NoGarbage(_, _, _)
MarkReachable_NoGarbage(blocks, i, reachable) ==
    IF i > Len(blocks) THEN blocks
    ELSE MarkReachable_NoGarbage(
             IF blocks[i].id \in reachable
             THEN mark_block_in(blocks, blocks[i].id)
             ELSE blocks,
             i + 1, reachable)

\* The mark phase with explicit roots, from the i-th block of the snapshot
\* on.  No block is removed in this phase, so the snapshot and the live
\* list hold the same blocks at the same places.
RECURSIVE MarkReachable(_, _, _)
MarkReachable(blocks, i, reachable) ==
    IF i > Len(blocks) THEN blocks
    ELSE MarkReachable(
             IF blocks[i].id \in reachable
             THEN mark_block_in(blocks, blocks[i].id)
             ELSE IF blocks[i].status = "allocated"
                  THEN [blocks EXCEPT ![i].status = "garbage"]
                  ELSE blocks,
             i + 1, reachable)

\* The mark phase without roots.
RECURSIVE MarkAllocated(_, _)
MarkAllocated(blocks, i) ==
    IF i > Len(blocks) THEN blocks
    ELSE MarkAllocated(
             IF blocks[i].status = "allocated"
             THEN mark_block_in(blocks, blocks[i].id)
             ELSE blocks,
             i + 1)

IsGarbage(block) == block.status = "garbage"

IsYoungGarbage(block) == block.generation = "young" /\ block.status = "garbage"

IsOldGarbage(block) == block.generation = "old" /\ block.status = "garbage"

\* The condition of the sweep loop named which.
Doomed(which, block) ==
    CASE which = "garbage" -> IsGarbage(block)
      [] which = "young_garbage" -> IsYoungGarbage(block)
      [] which = "old_garbage" -> IsOldGarbage(block)

\* A sweep loop over the snapshot all_blocks, from its i-th block on: the
\* blocks that meet the loop's condition are freed by id from the live list,
\* and each freed one is appended to reclaimed.  The result is
\* <<live, reclaimed>>.
RECURSIVE Sweep(_, _, _, _, _)
Sweep(which, all_blocks, i, live, reclaimed) ==
    IF i > Len(all_blocks) THEN <<live, reclaimed>>
    ELSE LET block == all_blocks[i]
         IN  IF Doomed(which, block) /\ get_block_by_id(live, block.id) # 0
             THEN Sweep(which, all_blocks, i + 1,
                        free_block_in(live, block.id), Append(reclaimed, block))
             ELSE Sweep(which, all_blocks, i + 1, live, reclaimed)

\* ResetMarked that gives the marked blocks up as garbage.
ResetMarked_ToGarbage(blocks) ==
    [i \in 1..Len(blocks) |->
        IF blocks[i].status = "marked"
        THEN [blocks[i] EXCEPT !.status = "garbage"]
        ELSE blocks[i]]

\* ResetMarked that resets nothing.
ResetMarked_Skip(blocks) == blocks

\* Reset all marked blocks back to allocated.
ResetMarked(blocks) ==
    [i \in 1..Len(blocks) |->
        IF blocks[i].status = "marked"
        THEN [blocks[i] EXCEPT !.status = "allocated"]
        ELSE blocks[i]]

\* mark_and_sweep that takes an empty root list as "nothing is reachable".
mark_and_sweep_NoRootsNoneReachable(blocks, roots) ==
    LET marked == MarkReachable(blocks, 1, find_reachable_blocks(blocks, roots))
        swept == Sweep("garbage", marked, 1, marked, <<>>)
    IN  <<ResetMarked(swept[1]), swept[2]>>

\* mark_and_sweep without the reset of the marked blocks.
mark_and_sweep_NoReset(blocks, roots) ==
    LET marked == IF roots # <<>>
                  THEN MarkReachable(blocks, 1, find_reachable_blocks(blocks, roots))
                  ELSE MarkAllocated(blocks, 1)
    IN  Sweep("garbage", marked, 1, marked, <<>>)

\* mark_and_sweep: <<the live blocks after the pass, reclaimed_blocks>>.
mark_and_sweep(blocks, roots) ==
    LET marked == IF roots # <<>>
                  THEN MarkReachable(blocks, 1, find_reachable_blocks(blocks, roots))
                  ELSE MarkAllocated(blocks, 1)
        swept == Sweep("garbage", marked, 1, marked, <<>>)
    IN  <<ResetMarked(swept[1]), swept[2]>>

\* PromoteAged that promotes at the age of young_gen_max_age already.
RECURSIVE PromoteAged_AtThreshold(_, _, _)
PromoteAged_AtThreshold(blocks, i, current_time) ==
    IF i > Len(blocks) THEN blocks
    ELSE PromoteAged_AtThreshold(
             IF /\ blocks[i].generation = "young"
                /\ blocks[i].status = "allocated"
                /\ current_time - blocks[i].allocation_time >= young_gen_max_age
             THEN promote_in(blocks, blocks[i].id)
             ELSE blocks,
             i + 1, current_time)

\* The promotion loop of generational_gc, from the i-th block on.
RECURSIVE PromoteAged(_, _, _)
PromoteAged(blocks, i, current_time) ==
    IF i > Len(blocks) THEN blocks
    ELSE PromoteAged(
             IF /\ blocks[i].generation = "young"
                /\ blocks[i].status = "allocated"
                /\ current_time - blocks[i].allocation_time > young_gen_max_age
             THEN promote_in(blocks, blocks[i].id)
             ELSE blocks,
             i + 1, current_time)

\* generational_gc that leaves the blocks freed by the major collection out
\* of the list it returns.
generational_gc_MajorUnreported(blocks, current_time, should_run_major_gc) ==
    LET promoted == PromoteAged(blocks, 1, current_time)
        minor == Sweep("young_garbage", promoted, 1, promoted, <<>>)
    IN  IF should_run_major_gc
        THEN <<Sweep("old_garbage", minor[1], 1, minor[1], minor[2])[1], minor[2]>>
        ELSE minor

\* generational_gc that runs the major collection whatever the gate.
generational_gc_AlwaysMajor(blocks, current_time, should_run_major_gc) ==
    LET promoted == PromoteAged(blocks, 1, current_time)
        minor == Sweep("young_garbage", promoted, 1, promoted, <<>>)
    IN  Sweep("old_garbage", minor[1], 1, minor[1], minor[2])

\* generational_gc: should_run_major_gc is the time-derived gate.
generational_gc(blocks, current_time, should_run_major_gc) ==
    LET promoted == PromoteAged(blocks, 1, current_time)
        minor == Sweep("young_garbage", promoted, 1, promoted, <<>>)
    IN  IF should_run_major_gc
        THEN Sweep("old_garbage", minor[1], 1, minor[1], minor[2])
        ELSE minor

\* has_references that counts the roots alone.
has_references_RootsOnly(all_blocks, roots, block_id) == Contains(roots, block_id)

\* has_references of reference_counting_gc for the block with block_id.
has_references(all_blocks, roots, block_id) ==
    \/ \E j \in 1..Len(all_blocks) : Contains(all_blocks[j].references, block_id)
    \/ Contains(roots, block_id)

\* reference_counting_gc that gives the unreferenced blocks up as garbage
\* and reclaims none.
reference_counting_gc_NoSweep(blocks, roots) ==
    <<[i \in 1..Len(blocks) |->
          IF /\ ~has_references(blocks, roots, blocks[i].id)
             /\ blocks[i].status = "allocated"
          THEN [blocks[i] EXCEPT !.status = "garbage"]
          ELSE blocks[i]],
      <<>>>>

reference_counting_gc(blocks, roots) ==
    LET counted == [i \in 1..Len(blocks) |->
                       IF /\ ~has_references(blocks, roots, blocks[i].id)
                          /\ blocks[i].status = "allocated"
                       THEN [blocks[i] EXCEPT !.status = "garbage"]
                       ELSE blocks[i]]
    IN  Sweep("garbage", counted, 1, counted, <<>>)

\* The dispatch of run_garbage_collection.
collect(blocks, roots, alg, current_time, should_run_major_gc) ==
    IF alg = "mark_sweep" THEN mark_and_sweep(blocks, roots)
    ELSE IF alg = "generational"
         THEN generational_gc(blocks, current_time, should_run_major_gc)
         ELSE reference_counting_gc(blocks, roots)

-----------------------------------------------------------------------------
(* The arithmetic of check_and_run_auto_gc.  used_memory / total_memory   *)
(* and its product with 100 are Python floats: each operation returns the *)
(* exact result rounded to DoubleBits significant bits, to the nearest    *)
(* such number and to the even one of two nearest.  A float is the record *)
(* [sig, exp] of value sig * 2^exp; sig is a natural number of DoubleBits *)
(* bits held as a sequence of limbs of LimbBits bits each, the least      *)
(* significant limb first, and sig = <<>> is 0.0.                         *)

\* The bits of the significand of a Python float.
DoubleBits == 53

\* The bits of one limb: a limb times a limb stays a machine integer.
LimbBits == 10

\* The limbs of the quotient computed before rounding, after its leading 1.
QuotientLimbs == 6

Limb == 2^LimbBits

\* The number of bits of an integer 0 <= k < 2 * Limb.
BitLen(k) ==
    IF k = 0 THEN 0
    ELSE CHOOSE b \in 1..(LimbBits + 1) : 2^(b - 1) <= k /\ k < 2^b

\* The number of bits of x, whose last limb is not 0.
BigBitLen(x) == (Len(x) - 1) * LimbBits + BitLen(x[Len(x)])

RECURSIVE Trim(_)
Trim(x) ==
    IF x # <<>> /\ x[Len(x)] = 0 THEN Trim(SubSeq(x, 1, Len(x) - 1)) ELSE x

RECURSIVE BigToNat(_)
BigToNat(x) == IF x = <<>> THEN 0 ELSE Head(x) + Limb * BigToNat(Tail(x))

\* x * k + carry from the i-th limb of x on, for 0 <= k, carry < Limb.
RECURSIVE BigTimes(_, _, _, _)
BigTimes(x, k, i, carry) ==
    IF i > Len(x)
    THEN IF carry = 0 THEN <<>> ELSE <<carry>>
    ELSE LET t == x[i] * k + carry
         IN  <<t % Limb>> \o BigTimes(x, k, i + 1, t \div Limb)

\* x + 1 from the i-th limb of x on.
RECURSIVE BigPlusOne(_, _)
BigPlusOne(x, i) ==
    IF i > Len(x) THEN <<1>>
    ELSE IF x[i] + 1 < Limb THEN <<x[i] + 1>> \o SubSeq(x, i + 1, Len(x))
    ELSE <<0>> \o BigPlusOne(x, i + 1)

\* x divided by 2^s, rounded down.
ShiftRight(x, s) ==
    LET whole == s \div LimbBits
        part == s % LimbBits
        y == SubSeq(x, whole + 1, Len(x))
    IN  Trim([i \in 1..Len(y) |->
                 (y[i] \div 2^part)
                 + ((IF i < Len(y) THEN y[i + 1] ELSE 0) % 2^part)
                   * 2^(LimbBits - part)])

\* The bits of x below bit s (bit 0 is the lowest) are all 0.
LowBitsZero(x, s) ==
    \A i \in 1..Len(x) :
        /\ i <= s \div LimbBits => x[i] = 0
        /\ i = s \div LimbBits + 1 => x[i] % 2^(s % LimbBits) = 0

\* x, of at least DoubleBits bits, rounded to DoubleBits bits: <<sig, s>>
\* with sig * 2^s the multiple of 2^s nearest to x, the even one of two
\* nearest.  sticky says that the exact value lies above x (and below x + 1).
RoundToDouble(x, sticky) ==
    LET s == BigBitLen(x) - DoubleBits
        q == ShiftRight(x, s)
        half == s >= 1 /\ ShiftRight(x, s - 1)[1] % 2 = 1
        more == sticky \/ (s >= 2 /\ ~LowBitsZero(x, s - 1))
        up == half /\ (more \/ q[1] % 2 = 1)
        r == IF up THEN BigPlusOne(q, 1) ELSE q
    IN  IF BigBitLen(r) > DoubleBits THEN <<ShiftRight(r, 1), s + 1>>
        ELSE <<r, s>>

\* n * 2^e = a and d = b * 2^f with d <= n < 2d: the result is <<n, d, e - f>>,
\* so that a / b = (n / d) * 2^(e - f) and 1 <= n / d < 2.
RECURSIVE Normalize(_, _, _)
Normalize(n, d, e) ==
    IF n < d THEN Normalize(2 * n, d, e - 1)
    ELSE IF n >= 2 * d THEN Normalize(n, 2 * d, e + 1)
    ELSE <<n, d, e>>

\* The next k limbs of r / d for r < d, the first one last, and the
\* remainder left after them.
RECURSIVE LongDivision(_, _, _)
LongDivision(r, d, k) ==
    IF k = 0 THEN <<<<>>, r>>
    ELSE LET rest == LongDivision((r * Limb) % d, d, k - 1)
         IN  <<Append(rest[1], (r * Limb) \div d), rest[2]>>

\* a / b for integers a >= 0 and b > 0.
float_div(a, b) ==
    IF a = 0 THEN [sig |-> <<>>, exp |-> 0]
    ELSE LET nd == Normalize(a, b, 0)
             fraction == LongDivision(nd[1] - nd[2], nd[2], QuotientLimbs)
             r == RoundToDouble(Append(fraction[1], 1), fraction[2] # 0)
         IN  [sig |-> r[1], exp |-> r[2] - QuotientLimbs * LimbBits + nd[3]]

\* x * k for a float x and an integer 1 <= k < Limb.
float_mul(x, k) ==
    IF x.sig = <<>> THEN x
    ELSE LET r == RoundToDouble(BigTimes(x.sig, k, 1, 0), FALSE)
         IN  [sig |-> r[1], exp |-> x.exp + r[2]]

\* x >= n for a float 0 <= x < 2^DoubleBits and an integer n >= 1: the
\* integer part of x is at least n.
float_ge(x, n) ==
    IF x.sig = <<>> THEN FALSE
    ELSE BigToNat(ShiftRight(x.sig, -x.exp)) >= n

\* memory_usage_percent >= self.threshold
usage_reaches_threshold(blocks, limit) ==
    float_ge(float_mul(float_div(get_stats(blocks).used_memory,
                                 get_stats(blocks).total_memory), 100), limit)

-----------------------------------------------------------------------------
(* The top-level calls.  Each records itself in last: op and args name    *)
(* the call, ok/error/block/reclaimed are what it returned, and pre is    *)
(* the block list before a call that rearranges or reclaims blocks.       *)

Call(op, args, ok, error, block, reclaimed, pre) ==
    [op |-> op, args |-> args, ok |-> ok, error |-> error, block |-> block,
     reclaimed |-> reclaimed, reclaimed_memory |-> SumSizes(reclaimed),
     pre |-> pre]

Returned(op, args, ok) == Call(op, args, ok, "", 0, <<>>, <<>>)

InitWith(total_size) ==
    /\ total_memory_size = total_size
    /\ memory_blocks = <<>>
    /\ next_block_id = 1
    /\ root_blocks = <<>>
    /\ algorithm = "mark_sweep"
    /\ threshold = 70
    /\ auto_gc = FALSE
    /\ now = 0
    /\ last = Returned("init", <<>>, TRUE)

\* allocate_memory that uses up an id when it fails.
allocate_memory_CountsFailures(size) ==
    LET error == allocate_error(memory_blocks, size)
    IN  /\ IF error = ""
           THEN /\ memory_blocks' = allocate_blocks(memory_blocks, next_block_id,
                                                    size, now)
                /\ last' = Call("allocate_memory", <<size>>, TRUE, "",
                                next_block_id, <<>>, memory_blocks)
           ELSE /\ UNCHANGED memory_blocks
                /\ last' = Call("allocate_memory", <<size>>, FALSE, error,
                                0, <<>>, memory_blocks)
        /\ next_block_id' = next_block_id + 1
        /\ UNCHANGED <<total_memory_size, root_blocks, algorithm,
                       threshold, auto_gc, now>>

allocate_memory(size) ==
    LET error == allocate_error(memory_blocks, size)
    IN  /\ IF error = ""
           THEN /\ memory_blocks' = allocate_blocks(memory_blocks, next_block_id,
                                                    size, now)
                /\ next_block_id' = next_block_id + 1
                /\ last' = Call("allocate_memory", <<size>>, TRUE, "",
                                next_block_id, <<>>, memory_blocks)
           ELSE /\ UNCHANGED <<memory_blocks, next_block_id>>
                /\ last' = Call("allocate_memory", <<size>>, FALSE, error,
                                0, <<>>, memory_blocks)
        /\ UNCHANGED <<total_memory_size, root_blocks, algorithm,
                       threshold, auto_gc, now>>

mark_as_garbage(block_id) ==
    LET i == get_block_by_id(memory_blocks, block_id)
        ok == i # 0 /\ memory_blocks[i].status = "allocated"
    IN  /\ memory_blocks' = IF ok
                            THEN [memory_blocks EXCEPT ![i].status = "garbage"]
                            ELSE memory_blocks
        /\ last' = Returned("mark_as_garbage", <<block_id>>, ok)
        /\ UNCHANGED <<total_memory_size, next_block_id, root_blocks, algorithm,
                       threshold, auto_gc, now>>

free_block(block_id) ==
    /\ memory_blocks' = free_block_in(memory_blocks, block_id)
    /\ last' = Returned("free_block", <<block_id>>,
                        get_block_by_id(memory_blocks, block_id) # 0)
    /\ UNCHANGED <<total_memory_size, next_block_id, root_blocks, algorithm,
                       threshold, auto_gc, now>>

mark_block(block_id) ==
    LET i == get_block_by_id(memory_blocks, block_id)
    IN  /\ memory_blocks' = mark_block_in(memory_blocks, block_id)
        /\ last' = Returned("mark_block", <<block_id>>,
                            i # 0 /\ memory_blocks[i].status \in {"allocated", "garbage"})
        /\ UNCHANGED <<total_memory_size, next_block_id, root_blocks, algorithm,
                       threshold, auto_gc, now>>

compact_memory ==
    /\ memory_blocks' = compact_blocks(memory_blocks)
    /\ last' = Call("compact_memory", <<>>, TRUE, "", 0, <<>>, memory_blocks)
    /\ UNCHANGED <<total_memory_size, next_block_id, root_blocks, algorithm,
                       threshold, auto_gc, now>>

promote_to_old_generation(block_id) ==
    LET i == get_block_by_id(memory_blocks, block_id)
    IN  /\ memory_blocks' = promote_in(memory_blocks, block_id)
        /\ last' = Returned("promote_to_old_generation", <<block_id>>,
                            i # 0 /\ memory_blocks[i].generation = "young")
        /\ UNCHANGED <<total_memory_size, next_block_id, root_blocks, algorithm,
                       threshold, auto_gc, now>>

\* add_reference that does not look for the block with to_id.
add_reference_NoTargetCheck(from_id, to_id) ==
    LET f == get_block_by_id(memory_blocks, from_id)
    IN  /\ memory_blocks' =
               IF f # 0
               THEN [memory_blocks EXCEPT ![f].references =
                        block_add_reference(memory_blocks[f].references, to_id)]
               ELSE memory_blocks
        /\ last' = Returned("add_reference", <<from_id, to_id>>, f # 0)
        /\ UNCHANGED <<total_memory_size, next_block_id, root_blocks, algorithm,
                       threshold, auto_gc, now>>

add_reference(from_id, to_id) ==
    LET f == get_block_by_id(memory_blocks, from_id)
        t == get_block_by_id(memory_blocks, to_id)
        ok == f # 0 /\ t # 0
    IN  /\ memory_blocks' =
               IF ok
               THEN [memory_blocks EXCEPT ![f].references =
                        block_add_reference(memory_blocks[f].references, to_id)]
               ELSE memory_blocks
        /\ last' = Returned("add_reference", <<from_id, to_id>>, ok)
        /\ UNCHANGED <<total_memory_size, next_block_id, root_blocks, algorithm,
                       threshold, auto_gc, now>>

remove_reference(from_id, to_id) ==
    LET f == get_block_by_id(memory_blocks, from_id)
    IN  /\ memory_blocks' =
               IF f # 0
               THEN [memory_blocks EXCEPT ![f].references =
                        block_remove_reference(memory_blocks[f].references, to_id)]
               ELSE memory_blocks
        /\ last' = Returned("remove_reference", <<from_id, to_id>>, f # 0)
        /\ UNCHANGED <<total_memory_size, next_block_id, root_blocks, algorithm,
                       threshold, auto_gc, now>>

set_algorithm(alg) ==
    /\ algorithm' = alg
    /\ last' = Returned("set_algorithm", <<>>, TRUE)
    /\ UNCHANGED <<total_memory_size, memory_blocks, next_block_id, root_blocks,
                   threshold, auto_gc, now>>

\* add_root that does not look for the id in the list.
add_root_NoMembershipTest(block_id) ==
    /\ root_blocks' = Append(root_blocks, block_id)
    /\ last' = Returned("add_root", <<block_id>>, TRUE)
    /\ UNCHANGED <<total_memory_size, memory_blocks, next_block_id, algorithm,
                   threshold, auto_gc, now>>

add_root(block_id) ==
    LET ok == ~Contains(root_blocks, block_id)
    IN  /\ root_blocks' = IF ok THEN Append(root_blocks, block_id) ELSE root_blocks
        /\ last' = Returned("add_root", <<block_id>>, ok)
        /\ UNCHANGED <<total_memory_size, memory_blocks, next_block_id, algorithm,
                       threshold, auto_gc, now>>

remove_root(block_id) ==
    /\ root_blocks' = RemoveFirst(root_blocks, block_id)
    /\ last' = Returned("remove_root", <<block_id>>, Contains(root_blocks, block_id))
    /\ UNCHANGED <<total_memory_size, memory_blocks, next_block_id, algorithm,
                       threshold, auto_gc, now>>

\* should_run_major_gc is (time.time() * 100) % 100 < 25, a function of the
\* fraction of the second the pass runs in.  Only generational_gc reads the
\* clock: last.args holds the gate and current_time of a generational pass.
ClockRead(should_run_major_gc) ==
    IF algorithm = "generational" THEN <<should_run_major_gc, now>> ELSE <<>>

run_garbage_collection(should_run_major_gc) ==
    LET result == collect(memory_blocks, root_blocks, algorithm, now,
                          should_run_major_gc)
    IN  /\ memory_blocks' = result[1]
        /\ last' = Call("run_garbage_collection", ClockRead(should_run_major_gc),
                        TRUE, "", 0, result[2], memory_blocks)
        /\ UNCHANGED <<total_memory_size, next_block_id, root_blocks, algorithm,
                       threshold, auto_gc, now>>

\* A collection pass taken step by step.  While the pass runs, last holds
\* its frame: the locals reachable and queue of _find_reachable_blocks.
\* The for loops of the pass run over lists whose length is fixed when the
\* loop starts (or shrinks while it runs) and are taken in one step, the
\* return; the while loop runs as long as its queue holds an id and is
\* taken one iteration at a time.
PassFrame(reachable, queue) == Returned("pass", <<reachable, queue>>, FALSE)

PassRunning == last.op = "pass"

\* if self.root_blocks, in mark_and_sweep: the pass calls
\* _find_reachable_blocks.
Scans == algorithm = "mark_sweep" /\ root_blocks # <<>>

\* run_garbage_collection up to the first test of `while queue` (with the
\* queue empty in the passes that do not search).
PassCall ==
    /\ ~PassRunning
    /\ last' = IF Scans THEN PassFrame(Range(root_blocks), root_blocks)
               ELSE PassFrame({}, <<>>)
    /\ UNCHANGED <<total_memory_size, memory_blocks, next_block_id, root_blocks,
                   algorithm, threshold, auto_gc, now>>

\* An iteration of `while queue` that does not record what it reaches.
WhileQueue_ForgetsReached ==
    /\ PassRunning
    /\ last.args[2] # <<>>
    /\ LET reachable == last.args[1]
           queue == last.args[2]
           i == get_block_by_id(memory_blocks, Head(queue))
           r == IF i # 0
                THEN VisitReferences(memory_blocks[i].references, 1,
                                     reachable, Tail(queue))
                ELSE <<reachable, Tail(queue)>>
       IN  last' = PassFrame(reachable, r[2])
    /\ UNCHANGED <<total_memory_size, memory_blocks, next_block_id, root_blocks,
                   algorithm, threshold, auto_gc, now>>

\* One iteration of `while queue`.
WhileQueue ==
    /\ PassRunning
    /\ last.args[2] # <<>>
    /\ LET reachable == last.args[1]
           queue == last.args[2]
           i == get_block_by_id(memory_blocks, Head(queue))
           r == IF i # 0
                THEN VisitReferences(memory_blocks[i].references, 1,
                                     reachable, Tail(queue))
                ELSE <<reachable, Tail(queue)>>
       IN  last' = PassFrame(r[1], r[2])
    /\ UNCHANGED <<total_memory_size, memory_blocks, next_block_id, root_blocks,
                   algorithm, threshold, auto_gc, now>>

\* The rest of the pass, once the queue is empty, and its return.
PassReturn(should_run_major_gc) ==
    /\ PassRunning
    /\ last.args[2] = <<>>
    /\ run_garbage_collection(should_run_major_gc)

set_threshold(limit) ==
    /\ threshold' = Max(1, Min(100, limit))
    /\ last' = Returned("set_threshold", <<limit>>, TRUE)
    /\ UNCHANGED <<total_memory_size, memory_blocks, next_block_id, root_blocks,
                   algorithm, auto_gc, now>>

set_auto_gc(enabled) ==
    /\ auto_gc' = enabled
    /\ last' = Returned("set_auto_gc", <<enabled>>, TRUE)
    /\ UNCHANGED <<total_memory_size, memory_blocks, next_block_id, root_blocks,
                   algorithm, threshold, now>>

\* ok says that the call returned the result of a pass, not None.
check_and_run_auto_gc(should_run_major_gc) ==
    LET runs == auto_gc /\ usage_reaches_threshold(memory_blocks, threshold)
        result == collect(memory_blocks, root_blocks, algorithm, now,
                          should_run_major_gc)
    IN  /\ memory_blocks' = IF runs THEN result[1] ELSE memory_blocks
        /\ last' = IF runs
                   THEN Call("check_and_run_auto_gc", ClockRead(should_run_major_gc),
                             TRUE, "", 0, result[2], memory_blocks)
                   ELSE Returned("check_and_run_auto_gc", <<>>, FALSE)
        /\ UNCHANGED <<total_memory_size, next_block_id, root_blocks, algorithm,
                       threshold, auto_gc, now>>

\* Time passes between two calls.
Tick ==
    /\ now' = now + 1
    /\ UNCHANGED <<total_memory_size, memory_blocks, next_block_id, root_blocks,
                   algorithm, threshold, auto_gc, last>>

-----------------------------------------------------------------------------
(* The specifications.  The state space of the whole interface is the    *)
(* product of the layouts, the statuses, the reference graphs, the root   *)
(* lists and the clock; each specification below runs the calls that bear *)
(* on one of these and leaves the rest at their initial values.           *)

RECURSIVE SumRefs(_)
SumRefs(blocks) ==
    IF blocks = <<>> THEN 0
    ELSE Len(Head(blocks).references) + SumRefs(Tail(blocks))

Algorithms == {"mark_sweep", "generational", "reference_counting"}

\* Placement: blocks of every size come and go (freed by hand or reclaimed
\* by a collection pass) and are compacted.
LayoutIds == 1..MaxBlockId

LayoutNext ==
    \/ \E size \in Sizes : next_block_id <= MaxBlockId /\ allocate_memory(size)
    \/ \E block_id \in LayoutIds : mark_as_garbage(block_id)
    \/ \E block_id \in LayoutIds : free_block(block_id)
    \/ compact_memory
    \/ \E should_run_major_gc \in BOOLEAN :
          run_garbage_collection(should_run_major_gc)

SpecLayout == InitWith(TotalSize) /\ [][LayoutNext]_vars

\* Extents: the calls that add, remove or move blocks, with a collection
\* pass of each algorithm.  The calls left out (mark_block,
\* promote_to_old_generation, add/remove_reference, add/remove_root) write
\* status, generation, references and root_blocks only.
ExtentsIds == 1..ExtentsMaxBlockId

ExtentsNext ==
    \/ \E size \in Sizes : next_block_id <= ExtentsMaxBlockId /\ allocate_memory(size)
    \/ \E block_id \in ExtentsIds : mark_as_garbage(block_id)
    \/ \E block_id \in ExtentsIds : free_block(block_id)
    \/ compact_memory
    \/ \E alg \in Algorithms : set_algorithm(alg)
    \/ \E should_run_major_gc \in BOOLEAN :
          run_garbage_collection(should_run_major_gc)

SpecExtents == InitWith(TotalSize) /\ [][ExtentsNext]_vars

\* Mark and sweep: unit blocks with references between them, roots, and
\* every status a call can give a block.  Reference and root lists are built
\* by appending alone: every list a removal leaves is one that appending
\* builds.
GraphIds == 1..GraphMaxBlockId

MarkSweepNext ==
    \/ next_block_id <= GraphMaxBlockId /\ allocate_memory(1)
    \/ \E block_id \in GraphIds : mark_as_garbage(block_id)
    \/ \E block_id \in GraphIds : free_block(block_id)
    \/ \E block_id \in GraphIds : mark_block(block_id)
    \/ \E from_id \in GraphIds, to_id \in GraphIds :
          SumRefs(memory_blocks) < MaxRefs /\ add_reference(from_id, to_id)
    \/ \E block_id \in GraphIds : Len(root_blocks) < MaxRoots /\ add_root(block_id)
    \/ \E should_run_major_gc \in BOOLEAN :
          run_garbage_collection(should_run_major_gc)

SpecMarkSweep == InitWith(TotalSize) /\ [][MarkSweepNext]_vars

\* Reference counting: unit blocks, the references between them (a block's
\* reference to itself and two blocks' references to each other among
\* them) and roots, under the reference counting algorithm.
RefCountNext ==
    \/ next_block_id <= GraphMaxBlockId /\ allocate_memory(1)
    \/ \E from_id \in GraphIds, to_id \in GraphIds :
          SumRefs(memory_blocks) < CycleMaxRefs /\ add_reference(from_id, to_id)
    \/ \E block_id \in GraphIds : Len(root_blocks) < MaxRoots /\ add_root(block_id)
    \/ set_algorithm("reference_counting")
    \/ \E should_run_major_gc \in BOOLEAN :
          run_garbage_collection(should_run_major_gc)

SpecRefCount == InitWith(TotalSize) /\ [][RefCountNext]_vars

\* Statuses and generations: unit blocks of every status and generation,
\* roots, and passes of the three algorithms.
CollectNext ==
    \/ next_block_id <= GraphMaxBlockId /\ allocate_memory(1)
    \/ \E block_id \in GraphIds : mark_as_garbage(block_id)
    \/ \E block_id \in GraphIds : mark_block(block_id)
    \/ \E block_id \in GraphIds : promote_to_old_generation(block_id)
    \/ \E block_id \in GraphIds : Len(root_blocks) < MaxRoots /\ add_root(block_id)
    \/ \E alg \in Algorithms : set_algorithm(alg)
    \/ \E should_run_major_gc \in BOOLEAN :
          run_garbage_collection(should_run_major_gc)

SpecCollect == InitWith(TotalSize) /\ [][CollectNext]_vars

\* What a pass reports: blocks of two sizes, of every status and
\* generation, and passes of the three algorithms.
ReclaimSizes == {1, 2}

ReclaimNext ==
    \/ \E size \in ReclaimSizes :
          next_block_id <= GraphMaxBlockId /\ allocate_memory(size)
    \/ \E block_id \in GraphIds : mark_as_garbage(block_id)
    \/ \E block_id \in GraphIds : mark_block(block_id)
    \/ \E block_id \in GraphIds : promote_to_old_generation(block_id)
    \/ \E alg \in Algorithms : set_algorithm(alg)
    \/ \E should_run_major_gc \in BOOLEAN :
          run_garbage_collection(should_run_major_gc)

SpecReclaim == InitWith(TotalSize) /\ [][ReclaimNext]_vars

\* Ageing: the clock ticks between the calls, and generational passes
\* promote the blocks that have grown old.
AgingNext ==
    \/ next_block_id <= GraphMaxBlockId /\ allocate_memory(1)
    \/ \E block_id \in GraphIds : mark_as_garbage(block_id)
    \/ set_algorithm("generational")
    \/ \E should_run_major_gc \in BOOLEAN :
          run_garbage_collection(should_run_major_gc)
    \/ now < MaxTime /\ Tick

SpecAging == InitWith(TotalSize) /\ [][AgingNext]_vars

\* The MemorySimulator calls that name blocks by id, with ids of live
\* blocks and of none.
CallsNext ==
    \/ next_block_id <= GraphMaxBlockId /\ allocate_memory(1)
    \/ \E block_id \in GraphIds : mark_as_garbage(block_id)
    \/ \E block_id \in GraphIds : free_block(block_id)
    \/ \E block_id \in GraphIds : mark_block(block_id)
    \/ \E block_id \in GraphIds : promote_to_old_generation(block_id)
    \/ \E from_id \in GraphIds, to_id \in GraphIds :
          SumRefs(memory_blocks) < MaxRefs /\ add_reference(from_id, to_id)
    \/ \E from_id \in GraphIds, to_id \in GraphIds : remove_reference(from_id, to_id)

SpecCalls == InitWith(TotalSize) /\ [][CallsNext]_vars

\* Generations: blocks are promoted by hand and by age while they are
\* allocated, reclaimed by passes of the three algorithms and moved.  The
\* first block is the one that is given up as garbage.
GenerationsNext ==
    \/ next_block_id <= GraphMaxBlockId /\ allocate_memory(1)
    \/ mark_as_garbage(1)
    \/ \E block_id \in GraphIds : promote_to_old_generation(block_id)
    \/ compact_memory
    \/ \E alg \in Algorithms : set_algorithm(alg)
    \/ \E should_run_major_gc \in BOOLEAN :
          run_garbage_collection(should_run_major_gc)
    \/ now < MaxTime /\ Tick

SpecGenerations == InitWith(TotalSize) /\ [][GenerationsNext]_vars

\* Passes step by step over graphs with references of blocks to themselves,
\* to each other and to freed blocks, and with roots that are live, freed
\* or never allocated.  No other call runs while a pass does.
PassNext ==
    \/ ~PassRunning /\ next_block_id <= GraphMaxBlockId /\ allocate_memory(1)
    \/ \E block_id \in GraphIds : ~PassRunning /\ free_block(block_id)
    \/ \E from_id \in GraphIds, to_id \in GraphIds :
          /\ ~PassRunning
          /\ SumRefs(memory_blocks) < CycleMaxRefs
          /\ add_reference(from_id, to_id)
    \/ \E block_id \in GraphIds :
          ~PassRunning /\ Len(root_blocks) < MaxRoots /\ add_root(block_id)
    \/ \E alg \in Algorithms : ~PassRunning /\ set_algorithm(alg)
    \/ PassCall
    \/ WhileQueue
    \/ \E should_run_major_gc \in BOOLEAN : PassReturn(should_run_major_gc)

SpecPass == InitWith(TotalSize) /\ [][PassNext]_vars

\* The queue of the running pass is empty: the return is what comes next.
Drained == PassRunning /\ last.args[2] = <<>>

\* The pass is one call of a single-threaded program: once called it runs
\* on, iteration after iteration, until it returns.  The last conjunct is
\* the weak fairness of PassReturn written out: PassReturn is enabled
\* exactly in the states of Drained, changes last and leaves Drained, so
\* that WF_vars(\E g \in BOOLEAN : PassReturn(g)) is []<>~Drained.
SpecPassFair ==
    /\ SpecPass
    /\ WF_vars(WhileQueue)
    /\ []<>(~Drained)

\* Reference counting passes in a row: blocks, references and roots are
\* set up under the reference counting algorithm, and from the first pass
\* on nothing but passes runs.
RefCountRunNext ==
    \/ /\ last.op # "run_garbage_collection"
       /\ next_block_id <= GraphMaxBlockId
       /\ allocate_memory(1)
    \/ \E from_id \in GraphIds, to_id \in GraphIds :
          /\ last.op # "run_garbage_collection"
          /\ SumRefs(memory_blocks) < CycleMaxRefs
          /\ add_reference(from_id, to_id)
    \/ \E block_id \in GraphIds :
          /\ last.op # "run_garbage_collection"
          /\ Len(root_blocks) < MaxRoots
          /\ add_root(block_id)
    \/ last.op # "run_garbage_collection" /\ set_algorithm("reference_counting")
    \/ \E should_run_major_gc \in BOOLEAN :
          /\ algorithm = "reference_counting"
          /\ run_garbage_collection(should_run_major_gc)

SpecRefCountRun == InitWith(TotalSize) /\ [][RefCountRunNext]_vars

\* run_garbage_collection under the reference counting algorithm, which
\* reads no clock, written with the result of the pass as a bound value: the
\* same step as run_garbage_collection (C33 checks that it is).
RepeatedPass ==
    /\ algorithm = "reference_counting"
    /\ \E result \in {reference_counting_gc(memory_blocks, root_blocks)} :
          /\ memory_blocks' = result[1]
          /\ last' = Call("run_garbage_collection", <<>>, TRUE, "", 0,
                          result[2], memory_blocks)
    /\ UNCHANGED <<total_memory_size, next_block_id, root_blocks, algorithm,
                   threshold, auto_gc, now>>

\* A further pass would change nothing: it reclaims nothing and the pass
\* just run was such a pass over the same blocks.  These are the states in
\* which <<RepeatedPass>>_vars is not enabled.
PassStutters ==
    algorithm = "reference_counting" =>
        \E result \in {reference_counting_gc(memory_blocks, root_blocks)} :
            /\ memory_blocks = result[1]
            /\ last = Call("run_garbage_collection", <<>>, TRUE, "", 0,
                           result[2], memory_blocks)

\* The passes are repeated: a pass that can change the state is run.  The
\* second conjunct is WF_vars(RepeatedPass) written out, with PassStutters
\* for ~ENABLED <<RepeatedPass>>_vars.
SpecRefCountRunFair ==
    /\ SpecRefCountRun
    /\ []<>PassStutters \/ []<><<RepeatedPass>>_vars

\* The root list: ids of live blocks and of none are added and removed.
RootIds == 1..RootsMaxId

RootsNext ==
    \/ next_block_id <= GraphMaxBlockId /\ allocate_memory(1)
    \/ \E block_id \in GraphIds : free_block(block_id)
    \/ \E block_id \in RootIds :
          Len(root_blocks) < RootsMaxLen /\ add_root(block_id)
    \/ \E block_id \in RootIds : remove_root(block_id)

SpecRoots == InitWith(TotalSize) /\ [][RootsNext]_vars

\* Automatic collection in the address range of the application: blocks of
\* a few sizes, thresholds inside and outside 1..100, and check_and_run_auto_gc.
AutoSizes == {1, 28, 29}

Thresholds == {0, 29, 30, 101}

AutoGcNext ==
    \/ \E size \in AutoSizes :
          next_block_id <= GraphMaxBlockId /\ allocate_memory(size)
    \/ \E block_id \in GraphIds : mark_as_garbage(block_id)
    \/ \E limit \in Thresholds : set_threshold(limit)
    \/ \E enabled \in BOOLEAN : set_auto_gc(enabled)
    \/ \E should_run_major_gc \in BOOLEAN :
          check_and_run_auto_gc(should_run_major_gc)

SpecAutoGc == InitWith(AppTotalSize) /\ [][AutoGcNext]_vars

-----------------------------------------------------------------------------
(* Placement and compaction (SpecExtents for C1, SpecLayout for the rest). *)

Disjoint(a, b) == a.end_index < b.start_index \/ b.end_index < a.start_index

\* The addresses s .. s + size - 1 lie in the address range and no block of
\* blocks covers any of them.
IsFreeRange(blocks, s, size) ==
    /\ s >= 0
    /\ s + size <= total_memory_size
    /\ \A i \in 1..Len(blocks) :
          blocks[i].end_index < s \/ blocks[i].start_index >= s + size

HasGap(blocks, size) ==
    \E s \in 0..(total_memory_size - size) : IsFreeRange(blocks, s, size)

AllocateCalled == last.op = "allocate_memory"

\* C1: in every reachable state the extents of the live blocks are pairwise
\* disjoint, each has size >= 1 and end_index = start_index + size - 1, and
\* each lies inside [0, total capacity).
C1_ExtentsDisjointInBounds ==
    /\ \A i \in 1..Len(memory_blocks) :
          LET b == memory_blocks[i]
          IN  /\ b.size >= 1
              /\ b.end_index = b.start_index + b.size - 1
              /\ b.start_index >= 0
              /\ b.end_index < total_memory_size
    /\ \A i, j \in 1..Len(memory_blocks) :
          i < j => Disjoint(memory_blocks[i], memory_blocks[j])

\* A generational pass has reclaimed the middle one of three blocks and left
\* a hole between the other two.
C1_Witness ==
    /\ last.op = "run_garbage_collection"
    /\ algorithm = "generational"
    /\ Len(last.reclaimed) = 1
    /\ Len(memory_blocks) = 2
    /\ memory_blocks[2].start_index > memory_blocks[1].end_index + 1

\* C2: a successful allocate_memory(size) places the new block at the lowest
\* address s such that s .. s + size - 1 was entirely free before the call.
C2_FirstFit ==
    AllocateCalled /\ last.ok =>
        \E i \in 1..Len(memory_blocks) :
            LET b == memory_blocks[i]
            IN  /\ b.id = last.block
                /\ b.size = last.args[1]
                /\ IsFreeRange(last.pre, b.start_index, b.size)
                /\ \A s \in 0..(b.start_index - 1) :
                      ~IsFreeRange(last.pre, s, b.size)

\* The new block went into a hole between two blocks although the space after
\* the last block would have held it too.
C2_Witness ==
    /\ AllocateCalled /\ last.ok
    /\ \E i \in 2..(Len(memory_blocks) - 1) :
          /\ memory_blocks[i].id = last.block
          /\ LET last_block == memory_blocks[Len(memory_blocks)]
             IN  IsFreeRange(last.pre, last_block.end_index + 1, last.args[1])

\* C3 as stated: allocate_memory(size) with size above the free memory always
\* fails with InsufficientFreeMemory.
C3_AlwaysInsufficientFreeMemory ==
    AllocateCalled /\ last.args[1] > get_free_memory(last.pre) =>
        ~last.ok /\ last.error = "InsufficientFreeMemory"

\* C3 (amended): allocate_memory(size) with size above the free memory always
\* fails and changes nothing: with InsufficientCapacity when size is above
\* the total capacity, with InsufficientFreeMemory otherwise.
C3_FailsAboveFreeMemory ==
    AllocateCalled /\ last.args[1] > get_free_memory(last.pre) =>
        /\ ~last.ok
        /\ memory_blocks = last.pre
        /\ last.error = IF last.args[1] > total_memory_size
                        THEN "InsufficientCapacity"
                        ELSE "InsufficientFreeMemory"

\* A request within the capacity but above what the live blocks leave free.
C3_Witness ==
    /\ AllocateCalled /\ ~last.ok
    /\ last.pre # <<>>
    /\ last.args[1] <= total_memory_size
    /\ last.args[1] > get_free_memory(last.pre)
    /\ last.error = "InsufficientFreeMemory"

\* C4: for 0 < size <= free memory, allocate_memory(size) succeeds when some
\* contiguous gap holds size and fails with FragmentedSpace exactly when
\* none does.
C4_FragmentedIffNoGap ==
    AllocateCalled /\ 0 < last.args[1] /\ last.args[1] <= get_free_memory(last.pre) =>
        IF HasGap(last.pre, last.args[1])
        THEN last.ok
        ELSE ~last.ok /\ last.error = "FragmentedSpace"

\* Enough free memory in total, in holes that are each too small.
C4_Witness ==
    /\ AllocateCalled /\ ~last.ok
    /\ last.error = "FragmentedSpace"
    /\ last.args[1] <= get_free_memory(last.pre)
    /\ ~HasGap(last.pre, last.args[1])

CompactCalled == last.op = "compact_memory"

\* C5: with at least one live block, compact_memory() followed by get_stats()
\* reports fragmentation = 0 and used + free = capacity.
C5_CompactThenStats ==
    CompactCalled /\ Len(memory_blocks) >= 1 =>
        /\ get_stats(memory_blocks).fragmentation = 0
        /\ get_stats(memory_blocks).used_memory + get_stats(memory_blocks).free_memory
              = get_stats(memory_blocks).total_memory

\* The start address the block with block_id had in blocks.
StartOf(blocks, block_id) ==
    (CHOOSE b \in Range(blocks) : b.id = block_id).start_index

\* C6: compact_memory() lays the live blocks out from address 0, each next
\* one at the previous end_index + 1, in the order of their prior start
\* addresses, changes nothing but start_index and end_index, and changes
\* nothing at all when called again.
C6_CompactContiguous ==
    CompactCalled =>
        /\ Len(memory_blocks) = Len(last.pre)
        /\ \A i \in 1..Len(memory_blocks) :
              LET b == memory_blocks[i]
              IN  /\ b.start_index = IF i = 1 THEN 0
                                     ELSE memory_blocks[i - 1].end_index + 1
                  /\ b.end_index = b.start_index + b.size - 1
                  /\ \E j \in 1..Len(last.pre) :
                        [last.pre[j] EXCEPT !.start_index = b.start_index,
                                            !.end_index = b.end_index] = b
        /\ \A i, j \in 1..Len(memory_blocks) :
              i < j => StartOf(last.pre, memory_blocks[i].id)
                          < StartOf(last.pre, memory_blocks[j].id)
        /\ compact_blocks(memory_blocks) = memory_blocks

\* Compaction has moved a block of status garbage over a hole.
C6_Witness ==
    /\ CompactCalled
    /\ Len(memory_blocks) >= 2
    /\ \E i \in 1..Len(memory_blocks) :
          /\ memory_blocks[i].start_index < last.pre[i].start_index
          /\ memory_blocks[i].status = "garbage"

-----------------------------------------------------------------------------
(* Mark and sweep (SpecMarkSweep).  A pass leaves root_blocks as it was,  *)
(* so root_blocks after the pass is the root set the pass ran with.       *)

MarkSweepPassed == last.op = "run_garbage_collection" /\ algorithm = "mark_sweep"

IdsOf(blocks) == {blocks[i].id : i \in 1..Len(blocks)}

\* The block of blocks with the id.
BlockOf(blocks, block_id) == CHOOSE b \in Range(blocks) : b.id = block_id

\* One step of reachability among the live blocks: the ids of reached plus
\* the live targets of the references held by live blocks of reached.
ReachStep(blocks, reached) ==
    reached \cup {t \in IdsOf(blocks) :
                    \E b \in Range(blocks) :
                        b.id \in reached /\ Contains(b.references, t)}

RECURSIVE ReachClosure(_, _)
ReachClosure(blocks, reached) ==
    IF ReachStep(blocks, reached) = reached THEN reached
    ELSE ReachClosure(blocks, ReachStep(blocks, reached))

\* The live blocks that are roots or transitively referenced from a live
\* root through live blocks.
ReachableFromRoots(blocks, roots) ==
    ReachClosure(blocks, Range(roots) \cap IdsOf(blocks))

\* C7: with an empty root set a mark-and-sweep pass reclaims no block that
\* was allocated before it: each is still live, allocated and otherwise
\* unchanged after the pass.
C7_NoRootsKeepsAllocated ==
    MarkSweepPassed /\ root_blocks = <<>> =>
        \A b \in Range(last.pre) :
            b.status = "allocated" => b \in Range(memory_blocks)

\* Without roots, an allocated block that nothing references has survived a
\* pass that reclaimed a garbage block.
C7_Witness ==
    /\ MarkSweepPassed /\ root_blocks = <<>>
    /\ last.reclaimed # <<>>
    /\ \E b \in Range(last.pre) :
          /\ b.status = "allocated"
          /\ b \in Range(memory_blocks)
          /\ \A o \in Range(last.pre) : ~Contains(o.references, b.id)

\* C8 as stated: with a non-empty root set a mark-and-sweep pass reclaims
\* every live block that is not reachable from the roots, so every block
\* live after the pass is reachable from a root.
C8_SurvivorsReachable ==
    MarkSweepPassed /\ root_blocks # <<>> =>
        \A b \in Range(memory_blocks) :
            b.id \in ReachableFromRoots(last.pre, root_blocks)

\* C8 (amended): with a non-empty root set a mark-and-sweep pass reclaims
\* every live block that is not reachable from the roots and was allocated
\* or garbage before the pass, so every block live after the pass is
\* reachable from a root or was marked before the pass.
C8_UnreachableUnmarkedReclaimed ==
    MarkSweepPassed /\ root_blocks # <<>> =>
        /\ \A b \in Range(last.pre) :
              /\ b.id \notin ReachableFromRoots(last.pre, root_blocks)
              /\ b.status \in {"allocated", "garbage"}
              => /\ b.id \notin IdsOf(memory_blocks)
                 /\ b.id \in IdsOf(last.reclaimed)
        /\ \A b \in Range(memory_blocks) :
              \/ b.id \in ReachableFromRoots(last.pre, root_blocks)
              \/ BlockOf(last.pre, b.id).status = "marked"

\* With a live root that does not reference it, an allocated block has been
\* reclaimed.
C8_Witness ==
    /\ MarkSweepPassed /\ root_blocks # <<>>
    /\ Range(root_blocks) \subseteq IdsOf(memory_blocks)
    /\ \E b \in Range(last.reclaimed) :
          /\ BlockOf(last.pre, b.id).status = "allocated"
          /\ b.id \notin ReachableFromRoots(last.pre, root_blocks)

C10_NoMarkedAfterPass ==
    MarkSweepPassed => \A b \in Range(memory_blocks) : b.status # "marked"

\* A block that a direct mark_block call had marked before the pass is live
\* after it.
C10_Witness ==
    /\ MarkSweepPassed
    /\ \E b \in Range(last.pre) :
          b.status = "marked" /\ b.id \in IdsOf(memory_blocks)

-----------------------------------------------------------------------------
(* Statuses across the calls and the passes of the three algorithms       *)
(* (SpecCollect).                                                         *)

Passed == last.op = "run_garbage_collection"

\* C11 as stated: in every state between two top-level calls no live block
\* has status marked.
C11_NeverMarked == \A b \in Range(memory_blocks) : b.status # "marked"

\* C11 (amended): a live block has status marked between two top-level calls
\* only through a successful direct mark_block call on it: no other call, a
\* collection pass of any of the three algorithms included, leaves a block
\* marked that was not marked before the call.
C11_MarkedOnlyByMarkBlock ==
    [][\A i \in 1..Len(memory_blocks') :
          memory_blocks'[i].status = "marked" =>
              \/ \E o \in Range(memory_blocks) :
                    o.id = memory_blocks'[i].id /\ o.status = "marked"
              \/ last' = Returned("mark_block", <<memory_blocks'[i].id>>, TRUE)]_vars

\* A block marked by hand is still marked after a pass of the generational
\* or the reference counting algorithm.
C11_Witness ==
    /\ Passed
    /\ algorithm # "mark_sweep"
    /\ \E b \in Range(memory_blocks) :
          b.status = "marked" /\ BlockOf(last.pre, b.id).status = "marked"

\* C14: no pass of any of the three algorithms reclaims a live block whose
\* id is in the root set, whatever its status before the pass.
C14_RootsNeverReclaimed ==
    Passed =>
        \A b \in Range(last.pre) :
            Contains(root_blocks, b.id) =>
                /\ b.id \in IdsOf(memory_blocks)
                /\ b.id \notin IdsOf(last.reclaimed)

-----------------------------------------------------------------------------
(* Reference counting (SpecRefCount).                                     *)

RefCountPassed == Passed /\ algorithm = "reference_counting"

\* The step is a pass of the reference counting algorithm.
RefCountPass ==
    algorithm = "reference_counting" /\ last'.op = "run_garbage_collection"

\* a and b are two live allocated blocks of blocks that reference each other,
\* and neither is in roots.
Cycle(blocks, roots, a, b) ==
    /\ a # b
    /\ {a, b} \subseteq IdsOf(blocks)
    /\ BlockOf(blocks, a).status = "allocated"
    /\ BlockOf(blocks, b).status = "allocated"
    /\ Contains(BlockOf(blocks, a).references, b)
    /\ Contains(BlockOf(blocks, b).references, a)
    /\ ~Contains(roots, a)
    /\ ~Contains(roots, b)

\* C12: a reference counting pass over two allocated blocks that reference
\* each other, neither a root, reclaims neither and leaves them as they
\* were: allocated, referencing each other, no roots.  The next pass thus
\* starts from the same condition, and so does every pass of a run of
\* consecutive passes.
C12_CycleSurvivesPasses ==
    [][\A a \in GraphIds, b \in GraphIds :
          RefCountPass /\ Cycle(memory_blocks, root_blocks, a, b) =>
              /\ Cycle(memory_blocks', root_blocks', a, b)
              /\ a \notin IdsOf(last'.reclaimed)
              /\ b \notin IdsOf(last'.reclaimed)]_vars

\* A pass has run over two blocks that reference each other, and both are
\* live after it.
C12_Witness ==
    /\ RefCountPassed
    /\ \E a \in GraphIds, b \in GraphIds :
          /\ Cycle(last.pre, root_blocks, a, b)
          /\ Cycle(memory_blocks, root_blocks, a, b)

\* C13: a reference counting pass reclaims every allocated block that is
\* not in the root set and that no other live block references; the block's
\* reference to itself does not count.
C13_UnreferencedReclaimed ==
    RefCountPassed =>
        \A b \in Range(last.pre) :
            /\ b.status = "allocated"
            /\ ~Contains(root_blocks, b.id)
            /\ \A o \in Range(last.pre) :
                  o.id # b.id => ~Contains(o.references, b.id)
            => /\ b.id \notin IdsOf(memory_blocks)
               /\ b.id \in IdsOf(last.reclaimed)

-----------------------------------------------------------------------------
(* The generational algorithm (SpecAging for the promotion, SpecCollect   *)
(* for the reclamation).                                                  *)

GenerationalPassed == Passed /\ algorithm = "generational"

\* The gate and the time the pass read from the clock.
MajorGate == last.args[1]

PassTime == last.args[2]

\* The block of the list before the pass was young, allocated and older than
\* young_gen_max_age when the pass ran.
Aged(b) ==
    /\ b.generation = "young"
    /\ b.status = "allocated"
    /\ PassTime - b.allocation_time > young_gen_max_age

\* The pass has promoted the block of the list before the pass.
Promoted(b) ==
    /\ b.generation = "young"
    /\ \E a \in Range(memory_blocks) : a.id = b.id /\ a.generation = "old"

\* C15: a generational pass promotes a block to old exactly when at the
\* start of the pass the block is young, allocated and its age (the time of
\* the pass minus its allocation time) is above young_gen_max_age; a young
\* block of age young_gen_max_age or less is never promoted.
C15_PromotedIffAged ==
    GenerationalPassed =>
        \A b \in Range(last.pre) :
            /\ Promoted(b) <=> Aged(b)
            /\ Aged(b) => [b EXCEPT !.generation = "old"] \in Range(memory_blocks)
            /\ b.generation = "young" /\ PassTime - b.allocation_time <= young_gen_max_age
               => ~Promoted(b)

\* One pass has promoted a block and left young an allocated block whose age
\* was exactly young_gen_max_age.
C15_Witness ==
    /\ GenerationalPassed
    /\ \E b \in Range(last.pre) : Aged(b) /\ Promoted(b)
    /\ \E b \in Range(last.pre) :
          /\ b.status = "allocated"
          /\ PassTime - b.allocation_time = young_gen_max_age
          /\ b \in Range(memory_blocks)

\* The pass has reclaimed the block of the list before the pass.
Reclaimed(b) == b.id \notin IdsOf(memory_blocks) /\ b.id \in IdsOf(last.reclaimed)

\* The block of the list before the pass is live and unchanged after it.
Kept(b) == b \in Range(memory_blocks) /\ b.id \notin IdsOf(last.reclaimed)

\* C16: a generational pass reclaims every young garbage block, reclaims the
\* old garbage blocks only when the major gate fires and then all of them,
\* and never removes an allocated or marked block; when the gate does not
\* fire every old garbage block is still live after the pass.
C16_GenerationalReclaims ==
    GenerationalPassed =>
        \A b \in Range(last.pre) :
            /\ IsYoungGarbage(b) => Reclaimed(b)
            /\ IsOldGarbage(b) /\ MajorGate => Reclaimed(b)
            /\ IsOldGarbage(b) /\ ~MajorGate => Kept(b)
            /\ b.status \in {"allocated", "marked"} => b.id \in IdsOf(memory_blocks)
            /\ Reclaimed(b) => IsYoungGarbage(b) \/ (IsOldGarbage(b) /\ MajorGate)

\* The gate has not fired: the pass has reclaimed a young garbage block and
\* left an old garbage block live.
C16_Witness ==
    /\ GenerationalPassed /\ ~MajorGate
    /\ \E b \in Range(last.pre) : IsYoungGarbage(b) /\ Reclaimed(b)
    /\ \E b \in Range(last.pre) : IsOldGarbage(b) /\ Kept(b)

-----------------------------------------------------------------------------
(* The result of a pass (SpecReclaim).                                    *)

\* The blocks of the list before the pass that are not live after it.
Removed == SelectSeq(last.pre, LAMBDA b : b.id \notin IdsOf(memory_blocks))

\* C18: after a pass of any algorithm the reclaimed list holds exactly the
\* blocks that were live before the pass and are not live after it, each
\* once, and reclaimed_memory is the sum of their sizes, which is the used
\* memory before the pass minus the used memory after it.
C18_ReclaimedIsRemoved ==
    Passed =>
        /\ IdsOf(last.reclaimed) = IdsOf(Removed)
        /\ Len(last.reclaimed) = Len(Removed)
        /\ \A r \in Range(last.reclaimed) : r.size = BlockOf(last.pre, r.id).size
        /\ last.reclaimed_memory = SumSizes(Removed)
        /\ last.reclaimed_memory = get_used_memory(last.pre)
                                      - get_used_memory(memory_blocks)

\* A generational pass whose gate fired has reclaimed a young and an old
\* block of different sizes.
C18_Witness ==
    /\ GenerationalPassed /\ MajorGate
    /\ last.reclaimed_memory = 3
    /\ \E b \in Range(last.reclaimed) : b.generation = "young"
    /\ \E b \in Range(last.reclaimed) : b.generation = "old"

-----------------------------------------------------------------------------
(* Automatic collection (SpecAutoGc).                                     *)

\* The step is a check_and_run_auto_gc call that has run a pass of the
\* selected algorithm and returned its result.
AutoPassRun ==
    /\ last'.ok
    /\ \E should_run_major_gc \in BOOLEAN :
          LET result == collect(memory_blocks, root_blocks, algorithm, now,
                                should_run_major_gc)
          IN  memory_blocks' = result[1] /\ last'.reclaimed = result[2]

\* C17: check_and_run_auto_gc runs a pass of the selected algorithm and
\* returns its result exactly when auto_gc is enabled and
\* used * 100 >= threshold * capacity; otherwise it returns nothing and
\* leaves the blocks and the root set as they were.
C17_RunsIffThresholdReached ==
    [][last'.op = "check_and_run_auto_gc" =>
          IF auto_gc /\ get_used_memory(memory_blocks) * 100
                           >= threshold * total_memory_size
          THEN AutoPassRun
          ELSE ~last'.ok /\ UNCHANGED <<memory_blocks, root_blocks>>]_vars

-----------------------------------------------------------------------------
(* Calls with ids of no live block (SpecCalls, SpecRoots).                *)

Live(block_id) == block_id \in IdsOf(memory_blocks)

\* The step is a call that names a block that is not live: free_block,
\* mark_block, mark_as_garbage or promote_to_old_generation with such an id,
\* add_reference from or to it, remove_reference from it.
NotFoundCall ==
    \/ /\ last'.op \in {"free_block", "mark_block", "mark_as_garbage",
                       "promote_to_old_generation"}
       /\ ~Live(last'.args[1])
    \/ /\ last'.op = "add_reference"
       /\ ~Live(last'.args[1]) \/ ~Live(last'.args[2])
    \/ /\ last'.op = "remove_reference"
       /\ ~Live(last'.args[1])

\* C19: free_block, mark_block, mark_as_garbage and promote_to_old_generation
\* with an id of no live block, add_reference from or to such an id and
\* remove_reference from such an id return false and leave the blocks
\* (their set, statuses, generations and references) and the id counter as
\* they were.
C19_NotFoundChangesNothing ==
    [][NotFoundCall =>
          ~last'.ok /\ UNCHANGED <<memory_blocks, next_block_id>>]_vars

\* add_reference from a live block to an id of no live block has returned
\* false.
C19_Witness ==
    /\ last.op = "add_reference"
    /\ ~last.ok
    /\ Live(last.args[1])
    /\ ~Live(last.args[2])

\* C20: add_root and remove_root with an id of no live block return false
\* and leave the root set as it was.
C20_RootNotFoundChangesNothing ==
    [][last'.op \in {"add_root", "remove_root"} /\ ~Live(last'.args[1]) =>
          ~last'.ok /\ UNCHANGED root_blocks]_vars

-----------------------------------------------------------------------------
(* The root list (SpecRoots).                                             *)

NoDuplicates(s) == \A i, j \in 1..Len(s) : i # j => s[i] # s[j]

\* s without every occurrence of e, the others in their order.
Without(s, e) == SelectSeq(s, LAMBDA x : x # e)

\* C21: the root list never holds an id twice and keeps the order of
\* insertion: add_root(id) appends id and returns true when id is not in the
\* list, and returns false and changes nothing when it is; remove_root(id)
\* removes id and returns true when id is in the list, the others keeping
\* their order, and returns false and changes nothing when it is not.
C21_RootListIsOrderedSet ==
    [][/\ NoDuplicates(root_blocks')
       /\ last'.op = "add_root" =>
             IF Contains(root_blocks, last'.args[1])
             THEN ~last'.ok /\ root_blocks' = root_blocks
             ELSE last'.ok /\ root_blocks' = root_blocks \o <<last'.args[1]>>
       /\ last'.op = "remove_root" =>
             IF Contains(root_blocks, last'.args[1])
             THEN last'.ok /\ root_blocks' = Without(root_blocks, last'.args[1])
             ELSE ~last'.ok /\ root_blocks' = root_blocks]_vars

\* remove_root has taken an id out of a list of three and left the other
\* two in the order they were added in, which is not the order of the ids.
C21_Witness ==
    /\ last.op = "remove_root" /\ last.ok
    /\ Len(root_blocks) = 2
    /\ root_blocks[1] > root_blocks[2]
    /\ ~Contains(root_blocks, last.args[1])

-----------------------------------------------------------------------------
(* References between blocks (SpecRefCount, SpecCalls).                   *)

\* The references held by the live block with the id.
ReferencesOf(blocks, block_id) == BlockOf(blocks, block_id).references

\* The step is add_reference called with a live from block.
AddReferenceCalled == last'.op = "add_reference" /\ Live(last'.args[1])

\* C22 as stated: add_reference(from, to) with a live from block returns true
\* and records the reference both when to = from and when to is the id of
\* no live block.
C22_SelfAndDanglingSucceed ==
    [][AddReferenceCalled
         /\ (last'.args[2] = last'.args[1] \/ ~Live(last'.args[2]))
       => /\ last'.ok
          /\ Contains(ReferencesOf(memory_blocks', last'.args[1]),
                      last'.args[2])]_vars

\* C22: add_reference(from, to) with a live from block returns true and
\* records the reference, once, when to is the id of a live block, from
\* itself included; when to is the id of no live block it returns false and
\* records nothing.
C22_SucceedsIffTargetLive ==
    [][AddReferenceCalled =>
         LET from_id == last'.args[1]
             to_id == last'.args[2]
             before == ReferencesOf(memory_blocks, from_id)
             after == ReferencesOf(memory_blocks', from_id)
         IN  IF Live(to_id)
             THEN /\ last'.ok
                  /\ after = IF Contains(before, to_id) THEN before
                             ELSE before \o <<to_id>>
                  /\ Len(Without(after, to_id)) = Len(after) - 1
             ELSE ~last'.ok /\ memory_blocks' = memory_blocks]_vars

\* A block holds a reference to itself, recorded by the last call.
C22_Witness ==
    /\ last.op = "add_reference" /\ last.ok
    /\ last.args[1] = last.args[2]
    /\ Live(last.args[1])
    /\ ReferencesOf(memory_blocks, last.args[1]) = <<last.args[1]>>

\* C23: free_block(id) on a live block returns true and removes that block
\* and no other; every other block keeps its extent, size, status,
\* generation and references, those to the freed id included, and
\* next_block_id is unchanged.
C23_FreeRemovesOnlyThatBlock ==
    [][last'.op = "free_block" /\ Live(last'.args[1]) =>
         /\ last'.ok
         /\ Len(memory_blocks') = Len(memory_blocks) - 1
         /\ memory_blocks' =
               SelectSeq(memory_blocks, LAMBDA b : b.id # last'.args[1])
         /\ next_block_id' = next_block_id]_vars

\* A block has been freed and a live block still refers to it.
C23_Witness ==
    /\ last.op = "free_block" /\ last.ok
    /\ ~Live(last.args[1])
    /\ \E b \in Range(memory_blocks) : Contains(b.references, last.args[1])

\* blocks with the status of the block with the id set, all else as it was.
WithStatus(blocks, block_id, status) ==
    [k \in 1..Len(blocks) |->
        IF blocks[k].id = block_id
        THEN [blocks[k] EXCEPT !.status = status]
        ELSE blocks[k]]

\* The block with the id is live and its status is one of statuses.
LiveWithStatus(block_id, statuses) ==
    Live(block_id) /\ BlockOf(memory_blocks, block_id).status \in statuses

\* C24: mark_as_garbage(id) sets the status to Garbage and returns true
\* exactly when the block is live and Allocated; mark_block(id) sets it to
\* Marked and returns true exactly when the block is live and Allocated or
\* Garbage; otherwise each returns false and no status changes.
C24_StatusCallsExact ==
    [][/\ last'.op = "mark_as_garbage" =>
             IF LiveWithStatus(last'.args[1], {"allocated"})
             THEN /\ last'.ok
                  /\ memory_blocks' =
                        WithStatus(memory_blocks, last'.args[1], "garbage")
             ELSE ~last'.ok /\ memory_blocks' = memory_blocks
       /\ last'.op = "mark_block" =>
             IF LiveWithStatus(last'.args[1], {"allocated", "garbage"})
             THEN /\ last'.ok
                  /\ memory_blocks' =
                        WithStatus(memory_blocks, last'.args[1], "marked")
             ELSE ~last'.ok /\ memory_blocks' = memory_blocks]_vars

\* mark_as_garbage has returned false for a live block that mark_block had
\* set to Marked.
C24_Witness ==
    /\ last.op = "mark_as_garbage" /\ ~last.ok
    /\ LiveWithStatus(last.args[1], {"marked"})

-----------------------------------------------------------------------------
(* Block ids (SpecExtents).                                               *)

\* The step is an allocate_memory call that returned a block.
Allocated == last'.op = "allocate_memory" /\ last'.ok

\* C25: over allocate_memory, free_block, compact_memory and collection
\* passes the live blocks have distinct ids; a successful allocation assigns
\* the value of next_block_id, which is above every id assigned before
\* because the counter starts at 1, grows by one with each assignment and
\* never falls; and no other step brings an id into the block list, so the
\* id of a freed or reclaimed block is never assigned again.
C25_IdsFreshAndIncreasing ==
    [][/\ next_block_id' >= next_block_id
       /\ \A i, j \in 1..Len(memory_blocks') :
             i # j => memory_blocks'[i].id # memory_blocks'[j].id
       /\ \A id \in IdsOf(memory_blocks') : id < next_block_id'
       /\ IF Allocated
          THEN /\ last'.block = next_block_id
               /\ \A id \in IdsOf(memory_blocks) : id < last'.block
               /\ next_block_id' = next_block_id + 1
               /\ IdsOf(memory_blocks') = IdsOf(memory_blocks) \cup {last'.block}
               /\ Len(memory_blocks') = Len(memory_blocks) + 1
          ELSE /\ next_block_id' = next_block_id
               /\ IdsOf(memory_blocks') \subseteq IdsOf(memory_blocks)]_vars

\* A block has been allocated after blocks with smaller ids were freed or
\* reclaimed: its id is above theirs although their ids are not in use.
C25_Witness ==
    /\ last.op = "allocate_memory" /\ last.ok
    /\ last.block = 3
    /\ IdsOf(memory_blocks) = {3}
    /\ IdsOf(last.pre) = {}

-----------------------------------------------------------------------------
(* Generations (SpecGenerations).                                         *)

\* blocks with the block with the id in the old generation, all else as it
\* was.
WithOld(blocks, block_id) ==
    [k \in 1..Len(blocks) |->
        IF blocks[k].id = block_id
        THEN [blocks[k] EXCEPT !.generation = "old"]
        ELSE blocks[k]]

\* C26: promote_to_old_generation(id) returns true and sets the generation
\* to Old exactly when the block is live and Young, and returns false and
\* changes nothing otherwise; a new block is Young; an Old block that stays
\* live stays Old through every call, collection passes and compact_memory
\* included.  (A step that leaves now unchanged is a call: the others are
\* the passing of time.)
C26_PromoteExactOldStaysOld ==
    [][/\ now' = now /\ last'.op = "promote_to_old_generation" =>
             IF /\ Live(last'.args[1])
                /\ BlockOf(memory_blocks, last'.args[1]).generation = "young"
             THEN /\ last'.ok
                  /\ memory_blocks' = WithOld(memory_blocks, last'.args[1])
             ELSE ~last'.ok /\ memory_blocks' = memory_blocks
       /\ now' = now /\ Allocated =>
             BlockOf(memory_blocks', last'.block).generation = "young"
       /\ \A b \in Range(memory_blocks) :
             b.generation = "old" /\ b.id \in IdsOf(memory_blocks')
                => BlockOf(memory_blocks', b.id).generation = "old"]_vars

\* compact_memory has moved a block of the old generation.
C26_Witness ==
    /\ last.op = "compact_memory"
    /\ \E b \in Range(memory_blocks) :
          /\ b.generation = "old"
          /\ BlockOf(last.pre, b.id).start_index # b.start_index

-----------------------------------------------------------------------------
(* Allocation after compaction, failed allocations (SpecLayout).          *)

\* The index after the last block of blocks, 0 when there is none.
EndOf(blocks) ==
    IF blocks = <<>> THEN 0 ELSE blocks[Len(blocks)].end_index + 1

\* C27: an allocate_memory(size) that follows compact_memory at once, with
\* 0 < size <= free memory, succeeds (it never reports fragmented space) and
\* the new block starts right after the last live block (at 0 when there is
\* none).
C27_AllocateAfterCompact ==
    [][/\ last.op = "compact_memory"
       /\ last'.op = "allocate_memory"
       /\ 0 < last'.args[1]
       /\ last'.args[1] <= get_free_memory(memory_blocks)
       => /\ last'.ok /\ last'.error = ""
          /\ BlockOf(memory_blocks', last'.block).start_index =
                EndOf(memory_blocks)
          /\ memory_blocks' =
                memory_blocks \o <<BlockOf(memory_blocks', last'.block)>>]_vars

\* A block that takes all of the free memory has been allocated behind two
\* blocks laid out as compact_memory leaves them.
C27_Witness ==
    /\ last.op = "allocate_memory" /\ last.ok
    /\ Len(last.pre) = 2
    /\ last.pre = compact_blocks(last.pre)
    /\ last.args[1] = total_memory_size - SumSizes(last.pre)
    /\ BlockOf(memory_blocks, last.block).start_index = EndOf(last.pre)

\* C28: allocate_memory(size) fails when size <= 0, size is above the
\* capacity, size is above the free memory or no gap holds size; a failed
\* call returns an error and leaves the block list and next_block_id
\* unchanged, so that the ids of successive successful allocations are
\* consecutive: each is next_block_id, which only a successful allocation
\* raises, and by one.
C28_FailedAllocateChangesNothing ==
    [][/\ last'.op = "allocate_memory" =>
          /\ \/ last'.args[1] <= 0
             \/ last'.args[1] > total_memory_size
             \/ last'.args[1] > get_free_memory(memory_blocks)
             \/ ~HasGap(memory_blocks, last'.args[1])
             => ~last'.ok
          /\ ~last'.ok =>
                /\ last'.error # "" /\ last'.block = 0
                /\ memory_blocks' = memory_blocks
                /\ next_block_id' = next_block_id
          /\ last'.ok =>
                /\ last'.block = next_block_id
                /\ next_block_id' = next_block_id + 1
       /\ last'.op # "allocate_memory" => next_block_id' = next_block_id]_vars

\* An allocation has failed for want of a gap after three have succeeded
\* and the second block was freed, and the next id is still 4.
C28_Witness ==
    /\ last.op = "allocate_memory" /\ ~last.ok
    /\ last.error = "FragmentedSpace"
    /\ memory_blocks = last.pre
    /\ IdsOf(memory_blocks) = {1, 3}
    /\ next_block_id = 4

-----------------------------------------------------------------------------
(* Termination of the passes (SpecPassFair).                              *)

\* C29: every collection pass of each of the three algorithms returns,
\* whatever the references between the live blocks (to themselves, in
\* cycles, to ids of no live block) and whatever the roots (ids of no live
\* block among them); when the search of a mark-and-sweep pass ends it has
\* found what _find_reachable_blocks returns.
C29_PassReturns ==
    /\ PassRunning ~> (last.op = "run_garbage_collection")
    /\ [](Drained /\ Scans =>
             last.args[1] = find_reachable_blocks(memory_blocks, root_blocks))

\* A mark-and-sweep pass with a root has returned where a block refers to
\* itself and to a block that was freed.
C29_Witness ==
    /\ last.op = "run_garbage_collection"
    /\ Scans
    /\ \E b \in Range(memory_blocks) :
          /\ Contains(b.references, b.id)
          /\ \E t \in Range(b.references) : ~Live(t)
          /\ Contains(root_blocks, b.id)

-----------------------------------------------------------------------------
(* The fragmentation figure (SpecLayout).                                 *)

\* The addresses that no block of blocks covers.
FreeAddresses(blocks) ==
    {a \in 0..(total_memory_size - 1) :
        \A i \in 1..Len(blocks) :
            a < blocks[i].start_index \/ a > blocks[i].end_index}

-----------------------------------------------------------------------------
(* Passes in succession (SpecMarkSweep, SpecRoots, SpecRefCount).         *)

\* The step is a mark-and-sweep pass that follows a mark-and-sweep pass
\* with no call in between: last holds the first pass, last' the second.
SecondMarkSweep ==
    /\ MarkSweepPassed
    /\ last'.op = "run_garbage_collection"

\* The blocks that a mark_block call had marked before the first pass and
\* that its non-empty root list does not reach.
MarkedUnreachable ==
    {b \in Range(last.pre) :
        /\ root_blocks # <<>>
        /\ b.status = "marked"
        /\ b.id \notin ReachableFromRoots(last.pre, root_blocks)}

\* C31 as stated: a mark-and-sweep pass that follows a mark-and-sweep pass
\* at once reclaims nothing, whatever the state the first one started in.
C31_SecondPassReclaimsNothing ==
    [][SecondMarkSweep => last'.reclaimed = <<>>]_vars

\* C31 (amended): a mark-and-sweep pass that follows a mark-and-sweep pass
\* at once reclaims the blocks that were marked before the first pass and
\* that the non-empty root list does not reach, and no other: nothing when
\* no such block was marked, and nothing when the root list is empty.
C31_SecondPassReclaimsSpared ==
    [][SecondMarkSweep =>
          /\ IdsOf(last'.reclaimed) = {b.id : b \in MarkedUnreachable}
          /\ Len(last'.reclaimed) = Cardinality(MarkedUnreachable)
          /\ IdsOf(memory_blocks') = IdsOf(memory_blocks) \ IdsOf(last'.reclaimed)]_vars

\* A pass has reclaimed nothing from a list that holds no garbage and no
\* marked block, with a live root and a second block that the root reaches:
\* the list is as a pass leaves it.
C31_Witness ==
    /\ MarkSweepPassed
    /\ last.reclaimed = <<>>
    /\ last.pre = memory_blocks
    /\ Len(memory_blocks) = 2
    /\ Range(root_blocks) \subseteq IdsOf(memory_blocks)
    /\ root_blocks # <<>>
    /\ \A b \in Range(memory_blocks) :
          /\ b.status = "allocated"
          /\ b.id \in ReachableFromRoots(memory_blocks, root_blocks)
    /\ \E b \in Range(memory_blocks) : ~Contains(root_blocks, b.id)

\* C32: once free_block or a collection pass has removed a block its id is
\* not in the root list, so that a mark-and-sweep pass whose roots have all
\* been removed runs as one without roots: every allocated block survives
\* it.
C32_RemovedBlockLeavesRoots ==
    [][/\ last'.op = "free_block" /\ last'.ok =>
             ~Contains(root_blocks', last'.args[1])
       /\ last'.op = "run_garbage_collection" =>
             /\ \A b \in Range(last'.reclaimed) : ~Contains(root_blocks', b.id)
             /\ Range(root_blocks) \cap IdsOf(memory_blocks) = {} =>
                   \A b \in Range(memory_blocks) :
                       b.status = "allocated" =>
                           b.id \in IdsOf(memory_blocks')]_vars

\* Every block of blocks is in roots or referenced by a block of blocks.
Settled(blocks, roots) ==
    \A b \in Range(blocks) :
        \/ Contains(roots, b.id)
        \/ \E o \in Range(blocks) : Contains(o.references, b.id)

\* blocks after n reference counting passes.  (SelectSeq keeps all of the
\* blocks a pass leaves and makes their sequence an explicit one, so that
\* the next pass does not compute it again at every use.)
RECURSIVE AfterPasses(_, _, _)
AfterPasses(blocks, roots, n) ==
    IF n = 0 THEN blocks
    ELSE AfterPasses(SelectSeq(reference_counting_gc(blocks, roots)[1],
                               LAMBDA b : TRUE),
                     roots, n - 1)

\* The ids of the blocks of blocks that are not in roots and that no block
\* of blocks references, those about to be reclaimed included.
Unreferenced(blocks, roots) ==
    {id \in IdsOf(blocks) :
        /\ ~Contains(roots, id)
        /\ \A o \in Range(blocks) : ~Contains(o.references, id)}

\* C33: with all live blocks allocated, reference counting passes run one
\* after the other come to a pass that reclaims nothing, after as many
\* passes as there are live blocks at the latest; every live block is then
\* a root or referenced by a live block, and a further pass reclaims
\* nothing.  A pass reclaims the blocks that no block references, those it
\* is about to reclaim counted, so a chain goes one link per pass.  (The
\* fourth conjunct says that the pass the fairness condition names is
\* run_garbage_collection.)
C33_PassesSettle ==
    /\ (algorithm = "reference_counting")
          ~> (RefCountPassed /\ last.reclaimed = <<>>)
    /\ [](RefCountPassed /\ last.reclaimed = <<>> =>
             /\ Settled(memory_blocks, root_blocks)
             /\ reference_counting_gc(memory_blocks, root_blocks)[2] = <<>>)
    /\ [](LET settled == AfterPasses(memory_blocks, root_blocks,
                                     Len(memory_blocks))
          IN  /\ Settled(settled, root_blocks)
              /\ reference_counting_gc(settled, root_blocks)[2] = <<>>)
    /\ [][RepeatedPass <=>
             \E should_run_major_gc \in BOOLEAN :
                /\ algorithm = "reference_counting"
                /\ run_garbage_collection(should_run_major_gc)]_vars
    /\ [](RefCountPassed =>
             /\ IdsOf(last.reclaimed) = Unreferenced(last.pre, root_blocks)
             /\ Range(memory_blocks) =
                   {b \in Range(last.pre) :
                       b.id \notin Unreferenced(last.pre, root_blocks)})

\* The first link of a chain of two has been reclaimed and the second,
\* which it referenced, is live and no longer referenced: the next pass
\* takes it.
C33_Witness ==
    /\ RefCountPassed
    /\ Len(last.pre) = 2 /\ Len(last.reclaimed) = 1 /\ Len(memory_blocks) = 1
    /\ Contains(last.reclaimed[1].references, memory_blocks[1].id)
    /\ memory_blocks[1].references = <<>>
    /\ ~Settled(memory_blocks, root_blocks)

=============================================================================
